---- MODULE Spec2Model ----
(***************************************************************************)
(* Model of create_text_stl (src/text_to_stl.py): the per-character layout *)
(* loop, the per-pixel box extrusion, the concatenation of the character   *)
(* meshes and the rotate / translate / scale pass before the mesh is saved.*)
(*                                                                         *)
(* A vertex is <<x, y, z>>, a triangle is a triple of vertices and a mesh  *)
(* is a sequence of triangles (the `vectors` of a numpy-stl Mesh).         *)
(* Coordinates are exact: integers up to the rotation, rationals           *)
(* [num, den] (den > 0) from the centering translation on, where the code  *)
(* uses float32 / float64.                                                 *)
(***************************************************************************)
EXTENDS Integers, Sequences, FiniteSets, TLC

VARIABLES
    text,             \* argument: the input string, a sequence of characters
    font_status,      \* environment: "ok", "no_face" (Face() raises), "no_size"
    font_size,        \* argument
    extrusion_depth,  \* argument
    letter_spacing,   \* argument
    face,             \* the font: character -> glyph slot contents after load_char
    pc,               \* position in create_text_stl
    i,                \* index (1-based) of the character the loop is at
    current_x,        \* line 24
    char_meshes,      \* line 23
    combined_mesh,    \* line 107, <<>> while unset
    translation,      \* the statistics of lines 113-115, <<>> while not computed
    loaded,           \* indices of text for which face.load_char was called
    offsets,          \* current_x as each character was reached (pos_x - x, line 54)
    saved,            \* meshes handed to Mesh.save, in call order
    stdout,           \* lines printed
    raised,           \* exception that left the function, "none" otherwise
    returned          \* value the call returned, "pending" before it returns

vars == <<text, font_status, font_size, extrusion_depth, letter_spacing,
          face, pc, i, current_x, char_meshes, combined_mesh, translation,
          loaded, offsets, saved, stdout, raised, returned>>

(***************************** bounds **************************************)
MaxLen == 2
MaxRows == 2
MaxCols == 2
MaxDepth == 2
MaxFontSize == 1

(************************* program constants *******************************)
\* scale_factor = 0.1, kept as the fraction ScaleNum / ScaleDen
ScaleNum == 1
ScaleDen == 10
\* face.glyph.advance.x >> 6 : 26.6 fixed point to whole pixels
AdvanceShift == 6

(***************************** helpers *************************************)
RECURSIVE Pow2(_)
Pow2(n) == IF n = 0 THEN 1 ELSE 2 * Pow2(n - 1)

\* Python's >> on integers: floor division by 2^n, also for negative values
ShiftRight(v, n) == v \div Pow2(n)

\* ss[lo] \o ... \o ss[hi], by halves
RECURSIVE ConcatRange(_, _, _)
ConcatRange(ss, lo, hi) ==
    IF lo > hi THEN <<>>
    ELSE IF lo = hi THEN ss[lo]
    ELSE LET mid == (lo + hi) \div 2
         IN  ConcatRange(ss, lo, mid) \o ConcatRange(ss, mid + 1, hi)
Concat(ss) == ConcatRange(ss, 1, Len(ss))

Min(S) == CHOOSE m \in S : \A n \in S : m <= n

\* s[lo] + ... + s[hi], by halves
RECURSIVE SumRange(_, _, _)
SumRange(s, lo, hi) ==
    IF lo > hi THEN 0
    ELSE IF lo = hi THEN s[lo]
    ELSE LET mid == (lo + hi) \div 2
         IN  SumRange(s, lo, mid) + SumRange(s, mid + 1, hi)
SumSeq(s) == SumRange(s, 1, Len(s))

\* all vertices of a mesh in storage order: vectors[:, :, k] flattened is the
\* k-th coordinate of each of these
FlatVertices(m) ==
    [n \in 1..(3 * Len(m)) |-> m[((n - 1) \div 3) + 1][((n - 1) % 3) + 1]]

Coord(m, k) ==
    [n \in 1..(3 * Len(m)) |-> m[((n - 1) \div 3) + 1][((n - 1) % 3) + 1][k]]

(************************ bitmap of a glyph ********************************)
\* np.array(bitmap.buffer).reshape(rows, width) > 0, at row y, column x (0-based)
CharBitmap(g, y, x) == g.buffer[y * g.width + x + 1] > 0

(************************** box of one pixel *******************************)
\* lines 57-67: v1..v8
BoxVertices(pos_x, pos_y, depth) ==
    << <<pos_x,     pos_y,     depth>>,
       <<pos_x + 1, pos_y,     depth>>,
       <<pos_x,     pos_y + 1, depth>>,
       <<pos_x + 1, pos_y + 1, depth>>,
       <<pos_x,     pos_y,     0>>,
       <<pos_x + 1, pos_y,     0>>,
       <<pos_x,     pos_y + 1, 0>>,
       <<pos_x + 1, pos_y + 1, 0>> >>

\* a plausible slip: the second back triangle wound like the front one
BoxFacesMutWinding(current_len) ==
    << <<current_len,     current_len + 1, current_len + 2>>,
       <<current_len + 1, current_len + 3, current_len + 2>>,
       <<current_len + 4, current_len + 6, current_len + 5>>,
       <<current_len + 5, current_len + 7, current_len + 6>>,
       <<current_len,     current_len + 2, current_len + 4>>,
       <<current_len + 2, current_len + 6, current_len + 4>>,
       <<current_len + 1, current_len + 5, current_len + 3>>,
       <<current_len + 3, current_len + 5, current_len + 7>>,
       <<current_len,     current_len + 4, current_len + 1>>,
       <<current_len + 1, current_len + 4, current_len + 5>>,
       <<current_len + 2, current_len + 3, current_len + 6>>,
       <<current_len + 3, current_len + 7, current_len + 6>> >>

\* lines 74-90: the 12 index triples (0-based indices into vertices)
BoxFaces(current_len) ==
    << <<current_len,     current_len + 1, current_len + 2>>,
       <<current_len + 1, current_len + 3, current_len + 2>>,
       <<current_len + 4, current_len + 6, current_len + 5>>,
       <<current_len + 5, current_len + 6, current_len + 7>>,
       <<current_len,     current_len + 2, current_len + 4>>,
       <<current_len + 2, current_len + 6, current_len + 4>>,
       <<current_len + 1, current_len + 5, current_len + 3>>,
       <<current_len + 3, current_len + 5, current_len + 7>>,
       <<current_len,     current_len + 4, current_len + 1>>,
       <<current_len + 1, current_len + 4, current_len + 5>>,
       <<current_len + 2, current_len + 3, current_len + 6>>,
       <<current_len + 3, current_len + 7, current_len + 6>> >>

(*************************** mesh of one glyph *****************************)
\* lines 50-90: cells visited with y outer, x inner; k = y * width + x.
\* acc = [vertices, faces] as the two lists stand before cell k.
RECURSIVE Extrude(_, _, _, _, _)
Extrude(g, k, cx, depth, acc) ==
    IF k >= g.rows * g.width THEN acc
    ELSE LET y == k \div g.width
             x == k % g.width
         IN  IF CharBitmap(g, y, x)
             THEN Extrude(g, k + 1, cx, depth,
                          [vertices |-> acc.vertices \o BoxVertices(cx + x, y, depth),
                           faces    |-> acc.faces \o BoxFaces(Len(acc.vertices))])
             ELSE Extrude(g, k + 1, cx, depth, acc)

\* a plausible slip: the two loops swapped (columns outer, rows inner)
RECURSIVE ExtrudeMutColumnMajor(_, _, _, _, _)
ExtrudeMutColumnMajor(g, k, cx, depth, acc) ==
    IF k >= g.rows * g.width THEN acc
    ELSE LET x == k \div g.rows
             y == k % g.rows
         IN  IF CharBitmap(g, y, x)
             THEN ExtrudeMutColumnMajor(g, k + 1, cx, depth,
                          [vertices |-> acc.vertices \o BoxVertices(cx + x, y, depth),
                           faces    |-> acc.faces \o BoxFaces(Len(acc.vertices))])
             ELSE ExtrudeMutColumnMajor(g, k + 1, cx, depth, acc)

GlyphGeometryMut(g, cx, depth) ==
    ExtrudeMutColumnMajor(g, 0, cx, depth, [vertices |-> <<>>, faces |-> <<>>])

\* lines 46-90 for one character: the vertices and faces lists after the loops
GlyphGeometry(g, cx, depth) ==
    Extrude(g, 0, cx, depth, [vertices |-> <<>>, faces |-> <<>>])

\* lines 95-98: char_mesh.vectors[i][j] = vertices[f[j]]
CharMesh(vertices, faces) ==
    [n \in 1..Len(faces) |->
        << vertices[faces[n][1] + 1],
           vertices[faces[n][2] + 1],
           vertices[faces[n][3] + 1] >>]

(**************************** layout rules *********************************)
\* line 28 tests for the space character only
IsSpace(ch) == ch = " "

\* line 34: advance_x = face.glyph.advance.x >> 6
\* (AdvanceXMutRaw: the shift forgotten)
AdvanceXMutRaw(g) == g.advance
AdvanceX(g) == ShiftRight(g.advance, AdvanceShift)

\* line 37
IsEmptyBitmap(g) == g.rows = 0 \/ g.width = 0

\* line 29 (AfterSpaceMutSpacing: the letter spacing added after a space too)
AfterSpaceMutSpacing(cx, size, spacing) == cx + size + spacing
AfterSpace(cx, size, spacing) == cx + size

\* line 38 (AfterEmptyMutSpacing: the letter spacing added here too)
AfterEmptyMutSpacing(cx, adv, spacing) == cx + adv + spacing
AfterEmpty(cx, adv, spacing) == cx + adv

\* lines 102-103 (AfterCharMutNoSpacing: line 103 left out)
AfterCharMutNoSpacing(cx, adv, spacing) == cx + adv
AfterChar(cx, adv, spacing) == cx + adv + spacing

\* lines 92-99: a character without a lit pixel adds no mesh
\* (WithCharMeshMutPrepend: the mesh put in front of the list)
WithCharMeshMutPrepend(meshes, geo) ==
    IF geo.vertices # <<>>
    THEN <<CharMesh(geo.vertices, geo.faces)>> \o meshes
    ELSE meshes
WithCharMesh(meshes, geo) ==
    IF geo.vertices # <<>>
    THEN Append(meshes, CharMesh(geo.vertices, geo.faces))
    ELSE meshes

(***************************** canonicalizer *******************************)
RatOf(v) == [num |-> v, den |-> 1]
RatAdd(a, b) == [num |-> a.num * b.den + b.num * a.den, den |-> a.den * b.den]
RatScale(a, n, d) == [num |-> a.num * n, den |-> a.den * d]

\* line 107: np.concatenate of the character meshes' data
Assemble(meshes) == Concat(meshes)

\* line 110: Mesh.rotate([1, 0, 0], pi / 2) of numpy-stl multiplies each row
\* vector by [[1,0,0],[0,0,-1],[0,1,0]]: (x, y, z) becomes (x, z, -y)
RotateVertex(v) == <<v[1], v[3], -v[2]>>
Rotated(m) == [t \in 1..Len(m) |-> [j \in 1..3 |-> RotateVertex(m[t][j])]]

\* lines 113-115: -mean of axis 0, -min of axis 1, -mean of axis 2
\* (CenteringMutMeanUp: the mean taken on axis 1 as on the other two)
CenteringMutMeanUp(m) ==
    LET n == Len(FlatVertices(m))
    IN  << [num |-> -SumSeq(Coord(m, 1)), den |-> n],
           [num |-> -SumSeq(Coord(m, 2)), den |-> n],
           [num |-> -SumSeq(Coord(m, 3)), den |-> n] >>
Centering(m) ==
    LET n == Len(FlatVertices(m))
        c2 == Coord(m, 2)
    IN  << [num |-> -SumSeq(Coord(m, 1)), den |-> n],
           RatOf(-Min({c2[k] : k \in 1..n})),
           [num |-> -SumSeq(Coord(m, 3)), den |-> n] >>

\* Mesh.translate: every vertex plus the translation
Translated(m, tr) ==
    [t \in 1..Len(m) |-> [j \in 1..3 |->
        [k \in 1..3 |-> RatAdd(RatOf(m[t][j][k]), tr[k])]]]

\* line 119: vectors *= scale_factor
Scaled(m) ==
    [t \in 1..Len(m) |-> [j \in 1..3 |->
        [k \in 1..3 |-> RatScale(m[t][j][k], ScaleNum, ScaleDen)]]]

(******************************* inputs ************************************)
Alphabet == {" ", "\t", "A", "B"}

RECURSIVE SeqsUpTo(_, _)
SeqsUpTo(S, n) ==
    IF n = 0 THEN {<<>>}
    ELSE LET shorter == SeqsUpTo(S, n - 1)
         IN  shorter \cup {Append(s, c) : s \in {q \in shorter : Len(q) = n - 1}, c \in S}

Texts == SeqsUpTo(Alphabet, MaxLen)

\* characters of t that reach face.load_char
Rasterized(t) == {t[k] : k \in 1..Len(t)} \ {" "}

Glyph(adv, rows, width, buffer) ==
    [advance |-> adv, rows |-> rows, width |-> width, buffer |-> buffer]

\* glyph slot contents the layout loop tells apart: no bitmap, a bitmap without
\* ink, one faint pixel, a lit pixel right of a dark one; advances in 26.6
\* units (100 is 1 pixel after the shift, -100 is -2)
LayoutGlyphs ==
    { Glyph(0, 0, 0, <<>>),       Glyph(100, 0, 0, <<>>),
      Glyph(0, 1, 1, <<0>>),      Glyph(100, 1, 1, <<0>>),
      Glyph(100, 1, 1, <<1>>),    Glyph(100, 1, 2, <<0, 255>>),
      Glyph(-100, 1, 1, <<255>>) }

FontSizes == {3}
LetterSpacings == {-1, 0, 2}
Depths == {2}

(***************************** the program *********************************)
InitLocals ==
    /\ pc = "start"
    /\ i = 1
    /\ current_x = 0
    /\ char_meshes = <<>>
    /\ combined_mesh = <<>>
    /\ translation = <<>>
    /\ loaded = <<>>
    /\ offsets = <<>>
    /\ saved = <<>>
    /\ stdout = <<>>
    /\ raised = "none"
    /\ returned = "pending"

Init ==
    /\ text \in Texts
    /\ font_status \in {"ok", "no_face", "no_size"}
    /\ font_size \in FontSizes
    /\ extrusion_depth \in Depths
    /\ letter_spacing \in LetterSpacings
    /\ face \in IF font_status = "ok" THEN [Rasterized(text) -> LayoutGlyphs]
                ELSE {<<>>}
    /\ InitLocals

\* lines 19-20 (FaceLoadsMutIgnore: the failure swallowed)
FaceLoadsMutIgnore(status) == TRUE
FaceLoads(status) == status = "ok"

LoadFont ==
    /\ pc = "start"
    /\ FaceLoads(font_status)
    /\ pc' = "loop"
    /\ i' = 1
    /\ current_x' = 0
    /\ char_meshes' = <<>>
    /\ UNCHANGED <<text, font_status, font_size, extrusion_depth, letter_spacing,
                   face, combined_mesh, translation, loaded, offsets, saved,
                   stdout, raised, returned>>

LoadFontFail ==
    /\ pc = "start"
    /\ ~FaceLoads(font_status)
    /\ pc' = "raised"
    /\ raised' = "FT_Exception"
    /\ UNCHANGED <<text, font_status, font_size, extrusion_depth, letter_spacing,
                   face, i, current_x, char_meshes, combined_mesh, translation,
                   loaded, offsets, saved, stdout, returned>>

\* lines 28-30
SkipSpace ==
    /\ pc = "loop"
    /\ i <= Len(text)
    /\ IsSpace(text[i])
    /\ current_x' = AfterSpace(current_x, font_size, letter_spacing)
    /\ offsets' = Append(offsets, current_x)
    /\ i' = i + 1
    /\ UNCHANGED <<text, font_status, font_size, extrusion_depth, letter_spacing,
                   face, pc, char_meshes, combined_mesh, translation, loaded,
                   saved, stdout, raised, returned>>

\* lines 33-39
EmptyBitmap ==
    /\ pc = "loop"
    /\ i <= Len(text)
    /\ ~IsSpace(text[i])
    /\ IsEmptyBitmap(face[text[i]])
    /\ loaded' = Append(loaded, i)
    /\ current_x' = AfterEmpty(current_x, AdvanceX(face[text[i]]), letter_spacing)
    /\ offsets' = Append(offsets, current_x)
    /\ i' = i + 1
    /\ UNCHANGED <<text, font_status, font_size, extrusion_depth, letter_spacing,
                   face, pc, char_meshes, combined_mesh, translation,
                   saved, stdout, raised, returned>>

\* lines 33-36 and 41-103
MeshChar ==
    /\ pc = "loop"
    /\ i <= Len(text)
    /\ ~IsSpace(text[i])
    /\ ~IsEmptyBitmap(face[text[i]])
    /\ loaded' = Append(loaded, i)
    /\ char_meshes' = WithCharMesh(char_meshes,
                          GlyphGeometry(face[text[i]], current_x, extrusion_depth))
    /\ current_x' = AfterChar(current_x, AdvanceX(face[text[i]]), letter_spacing)
    /\ offsets' = Append(offsets, current_x)
    /\ i' = i + 1
    /\ UNCHANGED <<text, font_status, font_size, extrusion_depth, letter_spacing,
                   face, pc, combined_mesh, translation,
                   saved, stdout, raised, returned>>

\* lines 106-107
HasMeshes(meshes) == meshes # <<>>

Combine ==
    /\ pc = "loop"
    /\ i > Len(text)
    /\ HasMeshes(char_meshes)
    /\ combined_mesh' = Assemble(char_meshes)
    /\ pc' = "combined"
    /\ UNCHANGED <<text, font_status, font_size, extrusion_depth, letter_spacing,
                   face, i, current_x, char_meshes, translation, loaded, offsets,
                   saved, stdout, raised, returned>>

\* lines 124-125
NoValid ==
    /\ pc = "loop"
    /\ i > Len(text)
    /\ ~HasMeshes(char_meshes)
    /\ stdout' = Append(stdout, "No valid characters to create mesh")
    /\ returned' = "None"
    /\ pc' = "done"
    /\ UNCHANGED <<text, font_status, font_size, extrusion_depth, letter_spacing,
                   face, i, current_x, char_meshes, combined_mesh, translation,
                   loaded, offsets, saved, raised>>

\* line 110
Rotate ==
    /\ pc = "combined"
    /\ combined_mesh' = Rotated(combined_mesh)
    /\ pc' = "rotated"
    /\ UNCHANGED <<text, font_status, font_size, extrusion_depth, letter_spacing,
                   face, i, current_x, char_meshes, translation, loaded, offsets,
                   saved, stdout, raised, returned>>

\* lines 113-115
Center ==
    /\ pc = "rotated"
    /\ translation' = Centering(combined_mesh)
    /\ combined_mesh' = Translated(combined_mesh, translation')
    /\ pc' = "centered"
    /\ UNCHANGED <<text, font_status, font_size, extrusion_depth, letter_spacing,
                   face, i, current_x, char_meshes, loaded, offsets,
                   saved, stdout, raised, returned>>

\* lines 118-119
Scale ==
    /\ pc = "centered"
    /\ combined_mesh' = Scaled(combined_mesh)
    /\ pc' = "scaled"
    /\ UNCHANGED <<text, font_status, font_size, extrusion_depth, letter_spacing,
                   face, i, current_x, char_meshes, translation, loaded, offsets,
                   saved, stdout, raised, returned>>

\* lines 122-123, the writer succeeding
Save ==
    /\ pc = "scaled"
    /\ saved' = Append(saved, combined_mesh)
    /\ stdout' = Append(stdout, "STL file has been created")
    /\ returned' = "None"
    /\ pc' = "done"
    /\ UNCHANGED <<text, font_status, font_size, extrusion_depth, letter_spacing,
                   face, i, current_x, char_meshes, combined_mesh, translation,
                   loaded, offsets, raised>>

\* line 122, the writer raising (output_file cannot be written)
SaveFail ==
    /\ pc = "scaled"
    /\ saved' = Append(saved, combined_mesh)
    /\ raised' = "OSError"
    /\ pc' = "raised"
    /\ UNCHANGED <<text, font_status, font_size, extrusion_depth, letter_spacing,
                   face, i, current_x, char_meshes, combined_mesh, translation,
                   loaded, offsets, stdout, returned>>

Next ==
    \/ LoadFont
    \/ LoadFontFail
    \/ SkipSpace
    \/ EmptyBitmap
    \/ MeshChar
    \/ Combine
    \/ NoValid
    \/ Rotate
    \/ Center
    \/ Scale
    \/ Save
    \/ SaveFail

Spec == Init /\ [][Next]_vars

(* One character in front of which the cursor has moved, with every bitmap  *)
(* of up to MaxRows x MaxCols pixels, every depth up to MaxDepth (0, which  *)
(* the entry point accepts, included) and every font size up to MaxFontSize.*)
Buffers(rows, width) == [1..(rows * width) -> {0, 255}]
AllGlyphs ==
    UNION { {Glyph(64, r, w, b) : b \in Buffers(r, w)} :
            r \in 0..MaxRows, w \in 0..MaxCols }

InitMesher ==
    /\ text = <<" ", "A">>
    /\ font_status \in {"ok", "no_face"}
    /\ font_size \in 1..MaxFontSize
    /\ extrusion_depth \in 0..MaxDepth
    /\ letter_spacing = 0
    /\ face \in IF font_status = "ok" THEN [{"A"} -> AllGlyphs] ELSE {<<>>}
    /\ InitLocals

SpecMesher == InitMesher /\ [][Next]_vars

(***************************************************************************)
(*                         properties of the claims                        *)
(***************************************************************************)
Whitespace == {" ", "\t"}

Cells(g) == {<<y, x>> : y \in 0..(g.rows - 1), x \in 0..(g.width - 1)}
Lit(g) == {c \in Cells(g) : CharBitmap(g, c[1], c[2])}
HasLit(g) == Lit(g) # {}
\* number of lit cells before c in row-major order
Rank(g, c) ==
    Cardinality({e \in Lit(g) : e[1] < c[1] \/ (e[1] = c[1] /\ e[2] < c[2])})
Corners(x, y, d) == {<<x + a, y + b, z>> : a \in {0, 1}, b \in {0, 1}, z \in {0, d}}
VerticesOf(m) == {m[n][j] : n \in 1..Len(m), j \in 1..3}

\* characters the loop has gone through, and the cursor after character k
Passed == 1..Len(offsets)
NextOffset(k) == IF k < Len(offsets) THEN offsets[k + 1] ELSE current_x
Drawn(k) == text[k] # " " /\ HasLit(face[text[k]])
Occurrences(s, v) == Cardinality({n \in 1..Len(s) : s[n] = v})

RECURSIVE DrawnUpTo(_)
DrawnUpTo(n) ==
    IF n = 0 THEN <<>>
    ELSE IF Drawn(n) THEN Append(DrawnUpTo(n - 1), n) ELSE DrawnUpTo(n - 1)

(* C1: an input with zero non-empty glyphs ends in an outcome the caller   *)
(* can tell from success, without the writer being invoked and without the *)
(* mean/min statistics being computed.  On success the call returns None   *)
(* (line 123 falls off the end of the function).                           *)
SuccessReturn == "None"
EndedWithoutGlyph == pc = "done" /\ char_meshes = <<>>
C1_EmptyResultDistinct ==
    EndedWithoutGlyph =>
        /\ returned # SuccessReturn
        /\ saved = <<>>
        /\ translation = <<>>

\* C1, the part the code keeps: while no glyph mesh exists the writer is not
\* invoked and the statistics are not computed
C1_NoWriterNoStatistics ==
    (pc \in {"loop", "done"} /\ char_meshes = <<>>) =>
        saved = <<>> /\ translation = <<>> /\ combined_mesh = <<>>

(* C2: a font that cannot be opened or sized ends the conversion in an     *)
(* exception before any character is rasterized, before any triangle is   *)
(* produced and without invoking the writer.                               *)
C2_FontFailureFirst ==
    font_status # "ok" =>
        /\ pc \in {"start", "raised"}
        /\ pc = "raised" => raised = "FT_Exception"
        /\ loaded = <<>>
        /\ char_meshes = <<>>
        /\ combined_mesh = <<>>
        /\ saved = <<>>
        /\ returned = "pending"
C2_Witness ==
    font_status = "no_size" /\ pc = "raised" /\ Len(text) = MaxLen /\ text[1] = "A"

(* C3: the mesh of a glyph has 12 triangles per lit cell, the boxes in     *)
(* row-major order of the lit cells, the box of cell (column, row) at      *)
(* (offset + column, row); a mask without a lit cell yields no mesh.       *)
C3_PixelCount ==
    (pc = "loop" /\ Len(offsets) = 2) =>
        LET g == face["A"]
            m == IF char_meshes = <<>> THEN <<>> ELSE char_meshes[1]
        IN  /\ Len(char_meshes) = IF HasLit(g) THEN 1 ELSE 0
            /\ Len(m) = 12 * Cardinality(Lit(g))
            /\ \A c \in Lit(g) :
                 VerticesOf(SubSeq(m, 12 * Rank(g, c) + 1, 12 * Rank(g, c) + 12))
                     = Corners(offsets[2] + c[2], c[1], extrusion_depth)
C3_Witness ==
    /\ font_status = "ok" /\ Len(offsets) = 2
    /\ face["A"].rows = 2 /\ face["A"].width = 2
    /\ face["A"].buffer = <<0, 255, 255, 0>>
    /\ Len(char_meshes[1]) = 24

(* C4: a whitespace character produces no glyph mesh, causes no rasterizer *)
(* call and advances the cursor by exactly the whitespace width font_size. *)
SkippedAsBlank(k) ==
    /\ Occurrences(loaded, k) = 0
    /\ NextOffset(k) = offsets[k] + font_size
MeshesOnlyForDrawn ==
    Len(char_meshes) = Cardinality({k \in Passed : Drawn(k)})
AdvancesNonNegative == \A c \in DOMAIN face : AdvanceX(face[c]) >= 0
SpacingKeepsStep ==
    \A c \in DOMAIN face :
        ~IsEmptyBitmap(face[c]) => AdvanceX(face[c]) + letter_spacing >= 0
CursorMonotone == \A k \in Passed : NextOffset(k) >= offsets[k]
\* C5 as claimed: with non-negative advances the cursor never decreases, for
\* every letter spacing
C5_CursorMonotoneAnySpacing == AdvancesNonNegative => CursorMonotone
\* C5 amended: with non-negative advances the cursor never decreases when the
\* letter spacing does not outweigh an advance it is added to
C5_CursorMonotone ==
    (AdvancesNonNegative /\ SpacingKeepsStep /\ font_size >= 0) => CursorMonotone
C5_Witness ==
    /\ Len(offsets) = 2 /\ letter_spacing = -1
    /\ text[1] = "A" /\ text[2] = "B"
    /\ ~IsEmptyBitmap(face["A"]) /\ AdvanceX(face["A"]) = 1
    /\ AdvancesNonNegative /\ SpacingKeepsStep
    /\ offsets[2] = offsets[1]

(* C6: two different non-whitespace characters never get the same offset.  *)
DistinctOffsets ==
    \A j \in Passed : \A k \in Passed :
        (j < k /\ text[j] \notin Whitespace /\ text[k] \notin Whitespace)
            => offsets[j] # offsets[k]
\* C6 as claimed: offsets of non-whitespace characters differ unless the letter
\* spacing or an advance width is zero
C6_DistinctUnlessZero ==
    (letter_spacing # 0 /\ \A c \in DOMAIN face : AdvanceX(face[c]) # 0)
        => DistinctOffsets
StepsPositive ==
    /\ font_size >= 0
    /\ \A c \in DOMAIN face :
         IF IsEmptyBitmap(face[c])
         THEN AdvanceX(face[c]) > 0
         ELSE AdvanceX(face[c]) + letter_spacing > 0
\* C6 amended: offsets of non-whitespace characters differ when every
\* character's step of the cursor is positive
C6_DistinctOffsets == StepsPositive => DistinctOffsets
C6_Witness ==
    /\ Len(offsets) = 2 /\ text[1] = "A" /\ text[2] = "B"
    /\ letter_spacing = 0 /\ StepsPositive
    /\ IsEmptyBitmap(face["A"]) /\ ~IsEmptyBitmap(face["B"])
    /\ offsets[2] > offsets[1]

(* C7: the combined mesh is the glyph meshes of the characters with a lit  *)
(* pixel, in input order, each at its own cursor offset, triangle for      *)
(* triangle.                                                               *)
CellOfRank(g, r) == CHOOSE c \in Lit(g) : Rank(g, c) = r
\* the boxes of a glyph, each built on its own, one after the other
GlyphBoxes(g, off, d) ==
    Concat([r \in 1..Cardinality(Lit(g)) |->
        LET c == CellOfRank(g, r - 1)
        IN  CharMesh(BoxVertices(off + c[2], c[1], d), BoxFaces(0))])
ExpectedCombined ==
    LET idx == DrawnUpTo(Len(text))
    IN  Concat([n \in 1..Len(idx) |->
            GlyphBoxes(face[text[idx[n]]], offsets[idx[n]], extrusion_depth)])
\* C7: at line 107 the combined mesh is that concatenation
C7_Concatenation ==
    pc = "combined" => combined_mesh = ExpectedCombined
C7_Witness ==
    /\ pc = "combined" /\ text = <<"A", "B">>
    /\ Len(char_meshes) = 2
    /\ char_meshes[1] # char_meshes[2]
    /\ combined_mesh = char_meshes[1] \o char_meshes[2]

(* C8: for a depth d > 0 the box of a lit cell has the 8 corners of        *)
(* [x, x+1] x [y, y+1] x [0, d]; each of its 6 faces carries exactly 2 of  *)
(* the 12 triangles, which share the face's diagonal; no triangle is       *)
(* degenerate; every normal by winding order points out of the box.        *)
Cross(t) ==
    LET u == <<t[2][1] - t[1][1], t[2][2] - t[1][2], t[2][3] - t[1][3]>>
        w == <<t[3][1] - t[1][1], t[3][2] - t[1][2], t[3][3] - t[1][3]>>
    IN  << u[2] * w[3] - u[3] * w[2],
           u[3] * w[1] - u[1] * w[3],
           u[1] * w[2] - u[2] * w[1] >>
TriVertices(t) == {t[1], t[2], t[3]}
\* the face of the box lo..hi where coordinate k equals plane
FaceOK(box, lo, hi, k, plane) ==
    LET on == {n \in 1..12 : \A j \in 1..3 : box[n][j][k] = plane}
        outward == IF plane = hi[k] THEN 1 ELSE -1
    IN  /\ Cardinality(on) = 2
        /\ \A n \in on : Cross(box[n])[k] * outward > 0
        /\ \A n \in on : \A a \in (1..3) \ {k} : Cross(box[n])[a] = 0
        /\ \E n1 \in on : \E n2 \in on :
             /\ n1 # n2
             /\ Cardinality(TriVertices(box[n1]) \cup TriVertices(box[n2])) = 4
             /\ LET shared == TriVertices(box[n1]) \cap TriVertices(box[n2])
                IN  /\ Cardinality(shared) = 2
                    /\ \A p \in shared : \A q \in shared :
                         p # q => \A a \in (1..3) \ {k} : p[a] # q[a]
BoxOK(box, x, y, d) ==
    LET lo == <<x, y, 0>>
        hi == <<x + 1, y + 1, d>>
    IN  /\ Len(box) = 12
        /\ VerticesOf(box) = Corners(x, y, d)
        /\ Cardinality(VerticesOf(box)) = 8
        /\ \A n \in 1..12 : Cross(box[n]) # <<0, 0, 0>>
        /\ \A k \in 1..3 : FaceOK(box, lo, hi, k, lo[k]) /\ FaceOK(box, lo, hi, k, hi[k])
\* C8: every box of the glyph mesh, at its cell's coordinate, is such a box
C8_BoxClosed ==
    (pc = "loop" /\ Len(offsets) = 2 /\ extrusion_depth > 0) =>
        LET g == face["A"]
        IN  \A c \in Lit(g) :
              BoxOK(SubSeq(char_meshes[1], 12 * Rank(g, c) + 1, 12 * Rank(g, c) + 12),
                    offsets[2] + c[2], c[1], extrusion_depth)
C8_Witness ==
    /\ font_status = "ok" /\ Len(offsets) = 2
    /\ extrusion_depth = MaxDepth /\ offsets[2] = MaxFontSize
    /\ face["A"].rows = 2 /\ face["A"].width = 2
    /\ face["A"].buffer = <<0, 0, 0, 255>>
    /\ Len(char_meshes) = 1 /\ Len(char_meshes[1]) = 12

(* C9: after rotation, centering and scale the mesh has as many triangles  *)
(* as the combined mesh, the up axis (coordinate 2) carries the extrusion  *)
(* depth, and the least up coordinate over all vertices is exactly 0.      *)
C9_RestsOnGround ==
    (pc = "scaled" \/ (pc = "done" /\ saved # <<>>)) =>
        LET up == {v[2] : v \in VerticesOf(combined_mesh)}
        IN  /\ Len(combined_mesh) = SumSeq([n \in 1..Len(char_meshes) |->
                                                Len(char_meshes[n])])
            /\ \A u \in up : u.den > 0 /\ u.num >= 0
            /\ \E u \in up : u.num = 0
            /\ \A u \in up :
                 u.num = 0 \/ u.num * ScaleDen = extrusion_depth * ScaleNum * u.den
            /\ pc = "done" => saved = <<combined_mesh>>
C9_Witness ==
    /\ pc = "done" /\ Len(saved) = 1 /\ Len(saved[1]) = 24
    /\ extrusion_depth = 2
    /\ \E t \in 1..24 : saved[1][t][1][2] = [num |-> 2, den |-> 10]

(* C10: one pass from cursor 0; each rasterized character is loaded once;  *)
(* a bitmap with zero rows or columns adds the advance alone, any other    *)
(* bitmap adds advance + letter spacing, lit or not; a character's boxes   *)
(* are placed at the cursor value before its update.                       *)
StepOf(k) ==
    LET g == face[text[k]]
    IN  IF g.rows = 0 \/ g.width = 0
        THEN g.advance \div 64
        ELSE (g.advance \div 64) + letter_spacing
C10_CursorRule ==
    (pc \in {"loop", "combined", "done"}) =>
        /\ Len(offsets) > 0 => offsets[1] = 0
        /\ \A k \in Passed : text[k] # " " =>
             /\ Occurrences(loaded, k) = 1
             /\ NextOffset(k) = offsets[k] + StepOf(k)
        /\ MeshesOnlyForDrawn
        /\ LET idx == DrawnUpTo(Len(offsets))
           IN  \A n \in 1..Len(char_meshes) :
                 {v[1] : v \in VerticesOf(char_meshes[n])} =
                     UNION { {offsets[idx[n]] + c[2], offsets[idx[n]] + c[2] + 1} :
                             c \in Lit(face[text[idx[n]]]) }
C10_Witness ==
    /\ Len(offsets) = 2 /\ text[1] = "A" /\ text[2] = "B"
    /\ letter_spacing = 2
    /\ IsEmptyBitmap(face["A"]) /\ AdvanceX(face["A"]) = 1
    /\ ~IsEmptyBitmap(face["B"]) /\ ~HasLit(face["B"])
    /\ offsets[2] = 1 /\ current_x = 1 + AdvanceX(face["B"]) + 2

====
